---- MODULE Spec2Model ----
(***************************************************************************)
(* Model of market_data_service.py: the lifespan handler (construction,    *)
(* login, startup check, logout at shutdown), the AngelOneAuth session,    *)
(* the per-connection websocket loop market_data_ws, the Redis slot and    *)
(* the pull query get_market_data.                                         *)
(***************************************************************************)
EXTENDS Integers, FiniteSets, Sequences, TLC

\* ---------------------------------------------------------------- bounds
NumSubscribers == 2
MaxQuote == 2
MaxCounted == 2

Subscribers == 1..NumSubscribers
Quotes == 1..MaxQuote

\* Python's None (an absent token, an unset global, a failed call's result).
None == "None"

\* ------------------------------------------------------------ environment
\* os.getenv() of the four credentials: "" stands for unset or empty (both
\* are falsy), "set" for a non-empty value; the OTP seed is additionally
\* either accepted by pyotp.TOTP(...).now() ("valid") or not ("invalid").
CredentialValues == {"", "set"}
OtpValues == {"", "invalid", "valid"}
Environments ==
    [API_KEY : CredentialValues, USER_ID : CredentialValues,
     MPIN : CredentialValues, OTP_TOKEN : OtpValues]

\* Values a field of the login response's "data" object can take: the key is
\* missing, or the value is a token string.
FieldValues == {"missing", "tok"}
TokenData == [jwtToken : FieldValues, refreshToken : FieldValues, feedToken : FieldValues]

\* What requests.post(...) and response.json() can produce for login:
\*   network_error : requests.post raises
\*   malformed     : response.json() raises, or the body is no JSON object
\*   json          : a JSON object, with the HTTP status code, the broker's
\*                   "status" flag and "data" (hasData is FALSE when the
\*                   "data" key is missing or null)
NoTokenData == [jwtToken |-> "missing", refreshToken |-> "missing", feedToken |-> "missing"]
LoginResponses ==
    {[kind |-> "network_error"], [kind |-> "malformed"]}
    \cup [kind : {"json"}, code : {200, 401}, status : BOOLEAN,
          hasData : {FALSE}, data : {NoTokenData}]
    \cup [kind : {"json"}, code : {200, 401}, status : BOOLEAN,
          hasData : {TRUE}, data : TokenData]

\* Outcomes of the logout request.
LogoutOutcomes == {"ok", "non200", "flag_false", "network_error", "malformed"}

VARIABLES
    environ,        \* the process environment read by AngelOneAuth.__init__
    pc,             \* position of the lifespan handler
    auth_client,    \* the global: None, or "auth" once AngelOneAuth() returned
    jwt_token,      \* AngelOneAuth.jwt_token      (None or "tok")
    refresh_token,  \* AngelOneAuth.refresh_token  (None or "tok")
    feed_token,     \* AngelOneAuth.feed_token     (None or "tok")
    loginResp,      \* the broker's response inside login() ("-" outside it)
    loginResult,    \* what login() returned: "-", "session" or None
    logoutOutcome,  \* the outcome of the logout request ("-" if none yet)
    raised,         \* the exception that left lifespan, or None
    loginRequests,  \* POSTs sent to the loginByPassword endpoint
    logoutRequests  \* POSTs sent to the logout endpoint

lifeVars == <<environ, pc, auth_client, jwt_token, refresh_token, feed_token,
              loginResp, loginResult, logoutOutcome, raised,
              loginRequests, logoutRequests>>

VARIABLES
    redis_client,   \* the global: None (ping failed at import) or "redis"
    redisUp,        \* whether the Redis server answers right now
    slot,           \* the value stored under the key "market_data"
    subPc,          \* position of each connection's market_data_ws handler
    connected,      \* whether the client's end of each websocket is still there
    pending,        \* the message the handler is about to send
    delivered,      \* the message each client received in the latest step
                    \* (Absent when the latest step delivered it nothing)
    lastFetch,      \* outcome of the handler's latest get_ltp_data call
    discAt,         \* where the handler was when its client went away
    fetchesAfterDisc, \* cycles a handler started after its client went away
    fetchCalls,     \* quote requests the handler's latest cycle sent the broker
    pullResp        \* the answer of GET /market_data given in the latest step
                    \* (Absent when the latest step was no pull query)

cacheVars == <<redis_client, redisUp, slot>>
subVars == <<subPc, connected, pending, lastFetch, discAt, fetchesAfterDisc,
             fetchCalls>>

\* What the latest step handed to the outside: a pull answer, a delivery.
NoDelivery == [s \in Subscribers |-> [type |-> "none", ltp |-> 0]]
outVars == <<pullResp, delivered>>

VARIABLES
    apiCall         \* the latest call of a Broker Client operation through its
                    \* HTTP endpoint or the websocket loop: the operation, the
                    \* broker's outcome, what the operation returned, whether it
                    \* raised, the requests it sent and the endpoint's answer

vars == <<lifeVars, cacheVars, subVars, outVars, apiCall>>

\* ------------------------------------------------------ AngelOneAuth.__init__
\* Variant of the credential test that forgets the PIN.
AllCredentialsButPin(e) ==
    e.API_KEY # "" /\ e.USER_ID # "" /\ e.OTP_TOKEN # ""

\* all([api_key, user_id, mpin, otp_token])
AllCredentialsPresent(e) ==
    e.API_KEY # "" /\ e.USER_ID # "" /\ e.MPIN # "" /\ e.OTP_TOKEN # ""

\* pyotp.TOTP(otp_token).now() does not raise
OtpSeedValid(e) == e.OTP_TOKEN = "valid"

\* The constructor returns instead of raising ValueError.
ConstructionOk(e) == AllCredentialsPresent(e) /\ OtpSeedValid(e)

\* ------------------------------------------------------- AngelOneAuth.login
\* response.status_code == 200 and session.get("status")
LoginAccepted(r) == r.kind = "json" /\ r.code = 200 /\ r.status

\* session["data"][k] : the stored value for a present key
Stored(v) == IF v = "tok" THEN "tok" ELSE None

\* The three assignments of lines 108-110 run in order; the first missing key
\* (or a missing "data") raises KeyError/TypeError and skips the rest.
LoginRaises(r) ==
    \/ r.kind \in {"network_error", "malformed"}
    \/ /\ LoginAccepted(r)
       /\ \/ ~r.hasData
          \/ r.data.jwtToken = "missing"
          \/ r.data.refreshToken = "missing"
          \/ r.data.feedToken = "missing"

JwtAfterLogin(old, r) ==
    IF LoginAccepted(r) /\ r.hasData /\ r.data.jwtToken # "missing"
    THEN Stored(r.data.jwtToken) ELSE old

RefreshAfterLogin(old, r) ==
    IF LoginAccepted(r) /\ r.hasData /\ r.data.jwtToken # "missing"
       /\ r.data.refreshToken # "missing"
    THEN Stored(r.data.refreshToken) ELSE old

FeedAfterLogin(old, r) ==
    IF LoginAccepted(r) /\ r.hasData /\ r.data.jwtToken # "missing"
       /\ r.data.refreshToken # "missing" /\ r.data.feedToken # "missing"
    THEN Stored(r.data.feedToken) ELSE old

\* login() returns the session dict only when line 112 is reached.
LoginReturn(r) == IF LoginAccepted(r) /\ ~LoginRaises(r) THEN "session" ELSE None

\* ------------------------------------------------------ AngelOneAuth.logout
\* Variant of logout() that posts only when an access token is held.
LogoutSendsOnlyWithSession(jwt) == jwt # None

\* logout() posts unconditionally: there is no test of jwt_token before it.
LogoutSendsRequest(jwt) == TRUE

\* Variant of logout() that lets a raising requests.post propagate.
LogoutRaisesOnNetworkError(o) == o = "network_error"

\* Every outcome is caught or handled inside logout(): nothing propagates.
LogoutRaises(o) == FALSE

\* Variant of logout() that resets the token fields.
TokenClearedByLogout(tok) == None

\* logout() assigns none of the three token fields.
TokenAfterLogout(tok) == tok

\* ------------------------------------------------------------------ lifespan
\* `if not auth_client.jwt_token: raise RuntimeError(...)`
StartupCheckPasses(jwt) == jwt # None

\* `if auth_client:` in the finally block
FinallyCallsLogout(client) == client # None

\* ------------------------------------------------------------- messages
\* A quote is an opaque non-empty dict; only its identity (ltp) is kept.
Quote(q) == [type |-> "quote", ltp |-> q]
\* None where a message or a quote is expected.
Absent == [type |-> "none", ltp |-> 0]
\* {"error": "Failed to fetch market data"}
ErrorMarker == [type |-> "error", ltp |-> 0]
\* str(market_data): the Python repr of the dict, a string and not the dict.
PyStr(m) == [type |-> "str", ltp |-> m.ltp]
\* {"data": "Redis not available, start WebSocket to fetch live data"}
NotAvailable == [type |-> "not_available", ltp |-> 0]
\* {"data": "No data available"}
NoData == [type |-> "no_data", ltp |-> 0]
\* An unhandled exception in an HTTP handler: a 500 response.
ServerError == [type |-> "error500", ltp |-> 0]

\* Outcomes of the quote request: HTTP 200 with status true and a quote, or
\* a non-200 code, a false status flag, a raising requests.post, or a body
\* that is no JSON object of the expected shape.
FetchOutcomes ==
    [kind : {"ok"}, ltp : Quotes]
    \cup [kind : {"non200", "flag_false", "network_error", "malformed"}, ltp : {0}]

\* --------------------------------------------------- AngelOneAuth.get_ltp_data
GetLtpData(o) == IF o.kind = "ok" THEN Quote(o.ltp) ELSE Absent

\* What a call of get_ltp_data can return, over all broker outcomes.
FetchResults == {GetLtpData(o) : o \in FetchOutcomes}

\* Variant of the test that lets every fetch result through.
AnyResultTruthy(m) == TRUE

\* `if market_data:`
Truthy(m) == m.type = "quote"

\* ------------------------------------------------------------ market_data_ws
\* Variant of the loop that sends without writing to the cache.
CacheWriteSkipped(client) == FALSE

\* `if redis_client:` guards the write; redis_client.set raises ConnectionError
\* when the server no longer answers.
CacheWriteAttempted(client) == client # None
CacheWriteRaises(client, up) == CacheWriteAttempted(client) /\ ~up

\* The message chosen by the if/else of lines 240-245.
MessageFor(m) == IF Truthy(m) THEN m ELSE ErrorMarker

\* Variant of the loop that treats a failed fetch as fatal.
FetchFailureIsFatal(m) == TRUE

\* A fetch that returned None does not leave the loop.
FetchFailureEndsLoop(m) == FALSE

\* Variant of the transport that drops a message to a gone client silently.
SendNeverFails(conn) == FALSE

\* send_json raises (WebSocketDisconnect or another exception) exactly when
\* the client's end is gone.
SendFails(conn) == ~conn

\* Variant of the except branches that tears down every connection.
HandlerExitClosesAll(s, t) == TRUE

\* The except branches act on this handler's own websocket only.
HandlerExitCloses(s, t) == s = t

Saturate(n) == IF n < MaxCounted THEN n + 1 ELSE MaxCounted

\* ------------------------------------------------------------ get_market_data
\* Variant of the endpoint that hands out the cached string cut short.
PullAnswerTruncated(client, up, value) ==
    IF client = None THEN NotAvailable
    ELSE IF ~up THEN ServerError
    ELSE IF value = Absent THEN NoData
    ELSE [type |-> "str", ltp |-> 0]

\* `if not redis_client:` answers without touching the store; otherwise
\* redis_client.get raises when the server no longer answers (nothing in the
\* endpoint catches it), and `data if data else "No data available"`.
PullAnswer(client, up, value) ==
    IF client = None THEN NotAvailable
    ELSE IF ~up THEN ServerError
    ELSE IF value = Absent THEN NoData
    ELSE value

\* Variant of the endpoint that reads destructively.
SlotClearedByGet(value) == Absent

\* The endpoint only reads: the key keeps its value.
SlotAfterGet(value) == value

\* ------------------------------------------- the Broker Client operations
\* get_ltp_data, get_historical_data, place_order, get_order_book, get_profile
BrokerOps == {"get_ltp_data", "get_historical_data", "place_order",
              "get_order_book", "get_profile"}

\* The operations that have an HTTP endpoint of their own.
EndpointOps == BrokerOps \ {"get_ltp_data"}

\* What the broker can do with the one request of an operation: the request
\* raises, the body is no JSON object, or a JSON object arrives with a status
\* code, the "status" flag and the payload under "data" present or missing.
BrokerOutcomes ==
    [kind : {"network_error", "malformed"}, code : {0}, status : {FALSE},
     data : {"missing"}]
    \cup [kind : {"json"}, code : {200, 401}, status : BOOLEAN,
          data : {"payload", "missing"}]

\* response.status_code == 200 and data.get("status")
OpAccepted(o) == o.kind = "json" /\ o.code = 200 /\ o.status

\* Variant of the operations that trusts the status flag alone.
OpResultIgnoresCode(o) ==
    IF o.kind = "json" /\ o.status /\ o.data = "payload" THEN "payload" ELSE None

\* `return data["data"]` (or data["data"]["fetched"][0]) when accepted; a
\* missing key raises inside the try and `except Exception` returns None, as
\* do a raising request, a body that is no JSON object and a refusal.
OpResult(o) ==
    IF OpAccepted(o) /\ o.data = "payload" THEN "payload" ELSE None

\* Every operation's body is one try/except Exception: nothing propagates.
OpRaises(o) == FALSE

\* No operation assigns a token field.
TokenAfterOp(tok) == tok

\* Variant of the operations that repeats a request that did not succeed.
OpRequestsWithRetry(op, ok) == IF ok THEN 1 ELSE 2

\* Each operation holds one requests.get / requests.post and no loop.
OpRequests(op, ok) == 1

\* `data if data else "No data available"` ("Order placement failed" for
\* POST /place_order); "-" for get_ltp_data, which has no endpoint of its own.
EndpointAnswer(op, result) ==
    IF op \notin EndpointOps THEN "-"
    ELSE IF result # None THEN result
    ELSE IF op = "place_order" THEN "Order placement failed"
    ELSE "No data available"

\* No Broker Client operation has been called through the endpoints yet.
NoOutcome == [kind |-> "-", code |-> 0, status |-> FALSE, data |-> "missing"]
NoCall == [op |-> "-", outcome |-> NoOutcome, result |-> None, raised |-> FALSE,
           requests |-> 0, answer |-> "-"]

Init ==
    /\ environ \in Environments
    /\ redis_client \in {None, "redis"}
    /\ redisUp = (redis_client # None)
    /\ slot = Absent
    /\ subPc = [s \in Subscribers |-> "idle"]
    /\ connected = [s \in Subscribers |-> FALSE]
    /\ pending = [s \in Subscribers |-> Absent]
    /\ delivered = NoDelivery
    /\ lastFetch = [s \in Subscribers |-> "-"]
    /\ discAt = [s \in Subscribers |-> "-"]
    /\ fetchesAfterDisc = [s \in Subscribers |-> 0]
    /\ fetchCalls = [s \in Subscribers |-> 0]
    /\ pullResp = Absent
    /\ apiCall = NoCall
    /\ pc = "start"
    /\ auth_client = None
    /\ jwt_token = None
    /\ refresh_token = None
    /\ feed_token = None
    /\ loginResp = "-"
    /\ loginResult = "-"
    /\ logoutOutcome = "-"
    /\ raised = None
    /\ loginRequests = 0
    /\ logoutRequests = 0

\* auth_client = AngelOneAuth()
Construct ==
    /\ pc = "start"
    /\ IF ConstructionOk(environ)
       THEN /\ auth_client' = "auth"
            /\ pc' = "constructed"
            /\ raised' = raised
       ELSE /\ auth_client' = auth_client
            /\ pc' = "finally"
            /\ raised' = "ValueError"
    /\ UNCHANGED <<environ, jwt_token, refresh_token, feed_token, loginResp,
                   loginResult, logoutOutcome, loginRequests, logoutRequests>>
    /\ UNCHANGED <<cacheVars, subVars, apiCall>>
    /\ pullResp' = Absent
    /\ delivered' = NoDelivery

\* auth_client.login()
Login ==
    /\ pc = "constructed"
    /\ \E r \in LoginResponses :
         /\ loginResp' = r
         /\ jwt_token' = JwtAfterLogin(jwt_token, r)
         /\ refresh_token' = RefreshAfterLogin(refresh_token, r)
         /\ feed_token' = FeedAfterLogin(feed_token, r)
         /\ loginResult' = LoginReturn(r)
    /\ loginRequests' = loginRequests + 1
    /\ pc' = "logged"
    /\ UNCHANGED <<environ, auth_client, logoutOutcome, raised, logoutRequests>>
    /\ UNCHANGED <<cacheVars, subVars, apiCall>>
    /\ pullResp' = Absent
    /\ delivered' = NoDelivery

\* if not auth_client.jwt_token: raise RuntimeError("Authentication failed")
\* ... yield
CheckStartup ==
    /\ pc = "logged"
    /\ IF StartupCheckPasses(jwt_token)
       THEN pc' = "serving" /\ raised' = raised
       ELSE pc' = "finally" /\ raised' = "RuntimeError"
    /\ loginResp' = "-"
    /\ UNCHANGED <<environ, auth_client, jwt_token, refresh_token, feed_token,
                   loginResult, logoutOutcome, loginRequests, logoutRequests>>
    /\ UNCHANGED <<cacheVars, subVars, apiCall>>
    /\ pullResp' = Absent
    /\ delivered' = NoDelivery

\* The server shuts down: it drops every connection and abandons the handlers
\* still running, so no connection is left, and control returns to lifespan
\* after the yield.
Shutdown ==
    /\ pc = "serving"
    /\ pc' = "finally"
    /\ subPc' = [s \in Subscribers |-> "idle"]
    /\ connected' = [s \in Subscribers |-> FALSE]
    /\ pending' = [s \in Subscribers |-> Absent]
    /\ lastFetch' = [s \in Subscribers |-> "-"]
    /\ discAt' = [s \in Subscribers |-> "-"]
    /\ fetchesAfterDisc' = [s \in Subscribers |-> 0]
    /\ fetchCalls' = [s \in Subscribers |-> 0]
    /\ UNCHANGED <<environ, auth_client, jwt_token, refresh_token, feed_token,
                   loginResp, loginResult, logoutOutcome, raised,
                   loginRequests, logoutRequests>>
    /\ UNCHANGED <<cacheVars, apiCall>>
    /\ pullResp' = Absent
    /\ delivered' = NoDelivery

\* finally: if auth_client: auth_client.logout()
Finally ==
    /\ pc = "finally"
    /\ IF FinallyCallsLogout(auth_client) /\ LogoutSendsRequest(jwt_token)
       THEN \E o \in LogoutOutcomes :
              /\ logoutOutcome' = o
              /\ logoutRequests' = logoutRequests + 1
              /\ raised' = IF LogoutRaises(o) THEN "LogoutError" ELSE raised
              /\ pc' = IF LogoutRaises(o) THEN "crashed" ELSE "stopped"
       ELSE /\ pc' = "stopped"
            /\ UNCHANGED <<logoutOutcome, logoutRequests, raised>>
    /\ jwt_token' = IF FinallyCallsLogout(auth_client)
                    THEN TokenAfterLogout(jwt_token) ELSE jwt_token
    /\ refresh_token' = IF FinallyCallsLogout(auth_client)
                        THEN TokenAfterLogout(refresh_token) ELSE refresh_token
    /\ feed_token' = IF FinallyCallsLogout(auth_client)
                     THEN TokenAfterLogout(feed_token) ELSE feed_token
    /\ UNCHANGED <<environ, auth_client, loginResp, loginResult, loginRequests>>
    /\ UNCHANGED <<cacheVars, subVars, apiCall>>
    /\ pullResp' = Absent
    /\ delivered' = NoDelivery

\* A client opens /ws/market_data: the handler starts and awaits accept().
Connect(s) ==
    /\ pc = "serving"
    /\ subPc[s] = "idle"
    /\ subPc' = [subPc EXCEPT ![s] = "accept"]
    /\ connected' = [connected EXCEPT ![s] = TRUE]
    /\ pullResp' = Absent
    /\ delivered' = NoDelivery
    /\ UNCHANGED <<lifeVars, cacheVars, pending, lastFetch, discAt,
                   fetchesAfterDisc, fetchCalls, apiCall>>

\* One pass over lines 239-245 up to the await of send_json, entered when
\* accept() or asyncio.sleep(1) completes: the blocking get_ltp_data call,
\* the cache write and the choice of the message.  The except branch of
\* lines 249-251 is taken when the cache write raises.
FetchCycle(s) ==
    /\ pc = "serving"
    /\ subPc[s] \in {"accept", "sleep"}
    /\ \E m \in FetchResults :
         LET writeRaises == Truthy(m) /\ CacheWriteRaises(redis_client, redisUp)
             ends == writeRaises \/ (~Truthy(m) /\ FetchFailureEndsLoop(m))
         IN /\ lastFetch' = [lastFetch EXCEPT ![s] =
                              IF Truthy(m) THEN "ok" ELSE "failed"]
            /\ fetchCalls' = [fetchCalls EXCEPT ![s] =
                              OpRequests("get_ltp_data", Truthy(m))]
            /\ slot' = IF Truthy(m) /\ CacheWriteAttempted(redis_client) /\ ~writeRaises
                       THEN PyStr(m) ELSE slot
            /\ IF ends
               THEN /\ subPc' = [t \in Subscribers |->
                                  IF HandlerExitCloses(s, t) /\ subPc[t] # "idle"
                                  THEN "closed" ELSE subPc[t]]
                    /\ connected' = [t \in Subscribers |->
                                  IF HandlerExitCloses(s, t) THEN FALSE ELSE connected[t]]
                    /\ pending' = pending
               ELSE /\ subPc' = [subPc EXCEPT ![s] = "send"]
                    /\ pending' = [pending EXCEPT ![s] = MessageFor(m)]
                    /\ connected' = connected
    /\ fetchesAfterDisc' = [fetchesAfterDisc EXCEPT ![s] =
                              IF connected[s] THEN @ ELSE Saturate(@)]
    /\ pullResp' = Absent
    /\ delivered' = NoDelivery
    /\ UNCHANGED <<lifeVars, redis_client, redisUp, discAt, apiCall>>

\* await websocket.send_json(...): delivered, then the handler awaits
\* asyncio.sleep(1); or the send raises and an except branch ends the handler
\* (WebSocketDisconnect: log only; any other exception: log and close()).
\* Both branches leave the same state: the handler has returned.
Send(s) ==
    /\ pc = "serving"
    /\ subPc[s] = "send"
    /\ IF SendFails(connected[s])
       THEN /\ subPc' = [t \in Subscribers |->
                          IF HandlerExitCloses(s, t) /\ subPc[t] # "idle"
                          THEN "closed" ELSE subPc[t]]
            /\ connected' = [t \in Subscribers |->
                          IF HandlerExitCloses(s, t) THEN FALSE ELSE connected[t]]
            /\ lastFetch' = [lastFetch EXCEPT ![s] = "-"]
            /\ fetchCalls' = [fetchCalls EXCEPT ![s] = 0]
            /\ delivered' = NoDelivery
       ELSE /\ subPc' = [subPc EXCEPT ![s] = "sleep"]
            /\ delivered' = [NoDelivery EXCEPT ![s] = IF connected[s] THEN pending[s] ELSE @]
            /\ UNCHANGED <<connected, lastFetch, fetchCalls>>
    /\ pending' = [pending EXCEPT ![s] = Absent]
    /\ pullResp' = Absent
    /\ UNCHANGED <<lifeVars, cacheVars, discAt, fetchesAfterDisc, apiCall>>

\* The client closes its end, or the transport to it breaks.
ClientDisconnect(s) ==
    /\ pc = "serving"
    /\ subPc[s] \in {"accept", "send", "sleep"}
    /\ connected[s]
    /\ connected' = [connected EXCEPT ![s] = FALSE]
    /\ pullResp' = Absent
    /\ delivered' = NoDelivery
    /\ discAt' = [discAt EXCEPT ![s] = subPc[s]]
    /\ UNCHANGED <<lifeVars, cacheVars, subPc, pending, lastFetch,
                   fetchesAfterDisc, fetchCalls, apiCall>>

\* The Redis server stops answering, or answers again.
RedisFails ==
    /\ redis_client # None
    /\ redisUp
    /\ redisUp' = FALSE
    /\ pullResp' = Absent
    /\ delivered' = NoDelivery
    /\ UNCHANGED <<lifeVars, redis_client, slot, subVars, apiCall>>

RedisRecovers ==
    /\ redis_client # None
    /\ ~redisUp
    /\ redisUp' = TRUE
    /\ pullResp' = Absent
    /\ delivered' = NoDelivery
    /\ UNCHANGED <<lifeVars, redis_client, slot, subVars, apiCall>>

\* GET /market_data
GetMarketData ==
    /\ pc = "serving"
    /\ pullResp' = PullAnswer(redis_client, redisUp, slot)
    /\ slot' = SlotAfterGet(slot)
    /\ delivered' = NoDelivery
    /\ UNCHANGED <<lifeVars, redis_client, redisUp, subVars, apiCall>>

Next ==
    \/ Construct
    \/ Login
    \/ CheckStartup
    \/ Shutdown
    \/ Finally
    \/ \E s \in Subscribers : Connect(s)
    \/ \E s \in Subscribers : FetchCycle(s)
    \/ \E s \in Subscribers : Send(s)
    \/ \E s \in Subscribers : ClientDisconnect(s)
    \/ RedisFails
    \/ RedisRecovers
    \/ GetMarketData

Spec == Init /\ [][Next]_vars

\* The asyncio event loop resumes every handler whose await has completed:
\* a handler that can take its next step eventually takes it.
FairSpec ==
    /\ Spec
    /\ \A s \in Subscribers : WF_vars(FetchCycle(s) \/ Send(s))

\* One call of a Broker Client operation: GET /historical_data,
\* GET /order_book, GET /profile and POST /place_order call theirs once and
\* wrap what it returns; get_ltp_data is called the same way by the loop.
CallOp(op) ==
    /\ pc = "serving"
    /\ \E o \in BrokerOutcomes :
         apiCall' = [op |-> op, outcome |-> o, result |-> OpResult(o),
                     raised |-> OpRaises(o),
                     requests |-> OpRequests(op, OpResult(o) # None),
                     answer |-> EndpointAnswer(op, OpResult(o))]
    /\ jwt_token' = TokenAfterOp(jwt_token)
    /\ refresh_token' = TokenAfterOp(refresh_token)
    /\ feed_token' = TokenAfterOp(feed_token)
    /\ UNCHANGED <<environ, pc, auth_client, loginResp, loginResult,
                   logoutOutcome, raised, loginRequests, logoutRequests>>
    /\ UNCHANGED <<cacheVars, subVars, outVars>>

\* The application as the Broker Client's caller: the lifespan steps and the
\* calls of the five operations while the app serves.
ApiNext ==
    \/ Construct
    \/ Login
    \/ CheckStartup
    \/ Shutdown
    \/ Finally
    \/ \E op \in BrokerOps : CallOp(op)

ApiSpec == Init /\ [][ApiNext]_vars

\* ------------------------------------------------------------ properties
AllAbsent == jwt_token = None /\ refresh_token = None /\ feed_token = None
AllPresent == jwt_token # None /\ refresh_token # None /\ feed_token # None
tokens == <<jwt_token, refresh_token, feed_token>>
NothingServed ==
    /\ \A s \in Subscribers : subPc[s] = "idle" /\ delivered[s] = Absent
    /\ pullResp = Absent
StartupFailed == raised \in {"ValueError", "RuntimeError"}

\* C1: login() started with all three tokens absent: on HTTP 200 with the
\* success flag true all three tokens are present afterwards and login
\* returns the session; on every other outcome all three are still absent
\* and login returns None.
C1_LoginAllOrNothing ==
    pc = "logged" =>
        IF LoginAccepted(loginResp)
        THEN AllPresent /\ loginResult = "session"
        ELSE AllAbsent /\ loginResult = None

\* C2: the session is never partially updated: the three tokens are all
\* absent or all present in every reachable state.
C2_SessionNeverPartial == AllAbsent \/ AllPresent

\* C3: the app serves only if login succeeded: while serving the access token
\* is present and login had returned success; once login has returned failure
\* the app never serves and no request is served.
C3_ServesOnlyAfterLoginSuccess ==
    /\ pc = "serving" => jwt_token # None /\ loginResult = "session"
    /\ loginResult = None => pc # "serving" /\ NothingServed

\* C4: with an empty credential field or an invalid OTP seed the constructor
\* raises the configuration error, startup aborts, the app never serves, and
\* no login and no logout request is sent.
C4_ConfigErrorAbortsStartup ==
    (\/ environ.API_KEY = "" \/ environ.USER_ID = "" \/ environ.MPIN = ""
     \/ environ.OTP_TOKEN = "" \/ environ.OTP_TOKEN = "invalid") =>
        /\ pc \in {"start", "finally", "stopped"}
        /\ pc # "start" => raised = "ValueError"
        /\ auth_client = None
        /\ loginRequests = 0
        /\ logoutRequests = 0
        /\ NothingServed

C4_Witness ==
    /\ environ.MPIN = ""
    /\ environ.API_KEY # "" /\ environ.USER_ID # "" /\ environ.OTP_TOKEN = "valid"
    /\ pc = "stopped"
    /\ raised = "ValueError"

\* C5 (as claimed): after logout() has run at shutdown no access, refresh or
\* feed token is held.
C5_SessionAbsentAfterLogout ==
    (pc = "stopped" /\ logoutRequests > 0) => AllAbsent

\* C5 (amended): logout() changes none of the three tokens: the step that
\* runs it at shutdown leaves them as they were, so after a successful
\* startup the access token is still held once shutdown is over.
C5_LogoutKeepsTokens ==
    [][pc = "finally" => tokens' = tokens]_vars

C5_Witness ==
    /\ pc = "stopped"
    /\ logoutRequests = 1
    /\ logoutOutcome = "ok"
    /\ AllPresent

\* C6 (as claimed): a logout request is sent only if a session exists (the
\* access token is present).
C6_LogoutOnlyWithSession ==
    logoutRequests > 0 => jwt_token # None

\* C6 (amended): the shutdown path sends exactly one logout request whenever
\* the Session Manager was constructed, whether or not a session exists, and
\* none when construction failed; none is sent before the shutdown path.
C6_LogoutSentIffConstructed ==
    /\ pc = "stopped" => (logoutRequests = 1 <=> auth_client # None)
    /\ pc = "stopped" => (logoutRequests = 0 <=> auth_client = None)
    /\ pc \notin {"stopped", "crashed"} => logoutRequests = 0

C6_Witness ==
    /\ pc = "stopped"
    /\ raised = "RuntimeError"
    /\ AllAbsent
    /\ logoutRequests = 1

\* C7: after a successful startup, shutdown attempts logout exactly once and
\* completes for every logout outcome: no outcome is escalated.
C7_ShutdownLogsOutOnce ==
    /\ pc # "crashed"
    /\ logoutRequests <= 1
    /\ (pc = "stopped" /\ ~StartupFailed) =>
           /\ logoutRequests = 1
           /\ logoutOutcome \in LogoutOutcomes
           /\ raised = None

C7_Witness ==
    /\ pc = "stopped"
    /\ ~StartupFailed
    /\ logoutOutcome = "network_error"
    /\ logoutRequests = 1

\* The step in which handler s runs its fetch, and the one in which its
\* send_json completes or raises (the app goes on serving in both).
FetchStep(s) ==
    pc' = "serving" /\ subPc[s] \in {"accept", "sleep"} /\ subPc'[s] # subPc[s]
SendStep(s) ==
    pc' = "serving" /\ subPc[s] = "send" /\ subPc'[s] # "send"

\* C8: a failed fetch makes the error marker the message of that cycle and
\* keeps the handler in its loop with the connection open; the marker is
\* delivered to a connected subscriber and the handler goes on to its wait;
\* a successful fetch in the cycle after a failed one makes the quote the
\* message of that cycle, and it is delivered.
C8_FailedCycleIsNotPermanent ==
    [][\A s \in Subscribers :
        /\ (FetchStep(s) /\ lastFetch'[s] = "failed") =>
              /\ subPc'[s] = "send"
              /\ pending'[s] = ErrorMarker
              /\ connected'[s] = connected[s]
        /\ (SendStep(s) /\ connected[s]) =>
              /\ delivered'[s] = pending[s]
              /\ subPc'[s] = "sleep"
              /\ connected'[s]
        /\ (FetchStep(s) /\ lastFetch[s] = "failed") =>
              /\ subPc'[s] = "send"
              /\ lastFetch'[s] = "ok" => pending'[s].type = "quote"
              /\ connected'[s] = connected[s]
      ]_vars

\* The error marker of a failed cycle has just been delivered, and the handler
\* is in its wait with the connection open, about to start the next cycle.
C8_Witness ==
    \E s \in Subscribers :
        /\ connected[s]
        /\ lastFetch[s] = "failed"
        /\ subPc[s] = "sleep"
        /\ delivered[s] = ErrorMarker
        /\ ENABLED FetchCycle(s)

\* C9: the step in which one subscriber's client goes away or its handler
\* ends changes nothing of any other subscriber and nothing of the three
\* tokens; every other handler can still take its next step, and a message
\* sent to a connected subscriber is delivered whatever became of the others.
C9_DisconnectIsIsolated ==
    /\ [][\A s \in Subscribers :
            (/\ pc' = "serving"
             /\ \/ (subPc[s] # "closed" /\ subPc'[s] = "closed")
                \/ (connected[s] /\ ~connected'[s])) =>
              /\ \A t \in Subscribers \ {s} :
                    /\ subPc'[t] = subPc[t]
                    /\ connected'[t] = connected[t]
                    /\ pending'[t] = pending[t]
                    /\ lastFetch'[t] = lastFetch[t]
              /\ tokens' = tokens
         ]_vars
    /\ [][\A t \in Subscribers :
            (SendStep(t) /\ connected[t]) =>
               delivered'[t] = pending[t] /\ subPc'[t] = "sleep"]_vars
    /\ [](\A t \in Subscribers :
            /\ (pc = "serving" /\ subPc[t] \in {"accept", "sleep"}) => ENABLED FetchCycle(t)
            /\ (pc = "serving" /\ subPc[t] = "send") => ENABLED Send(t))

\* One handler has ended on its client's disconnect, and a quote has just been
\* delivered to another, connected subscriber; the session is held.
C9_Witness ==
    \E s, t \in Subscribers :
        /\ s # t
        /\ subPc[s] = "closed"
        /\ discAt[s] # "-"
        /\ subPc[t] = "sleep"
        /\ connected[t]
        /\ delivered[t].type = "quote"
        /\ AllPresent

\* C10: after its client has gone away a handler starts at most one further
\* cycle and then ends: it starts none after the first, its next fetch and
\* its next send are never blocked while the app serves, and its next send
\* is the step that ends it.
C10_LoopEndsWithinOneInterval ==
    /\ [](\A s \in Subscribers :
            /\ fetchesAfterDisc[s] <= 1
            /\ (pc = "serving" /\ ~connected[s] /\ subPc[s] \in {"accept", "sleep"}) =>
                  fetchesAfterDisc[s] = 0 /\ ENABLED FetchCycle(s)
            /\ (pc = "serving" /\ ~connected[s] /\ subPc[s] = "send") =>
                  ENABLED Send(s))
    /\ [][\A s \in Subscribers :
            (SendStep(s) /\ ~connected[s]) => subPc'[s] = "closed"]_vars

\* C10, the same termination as a liveness property of FairSpec: a handler whose
\* client has gone away eventually ends (unless the app stops serving first).
C10_EventuallyEnds ==
    \A s \in Subscribers :
        (~connected[s] /\ subPc[s] \in {"accept", "send", "sleep"})
           ~> (subPc[s] = "closed" \/ pc # "serving")

\* The client went away during the wait, one cycle was started after that,
\* and the handler has ended.
C10_Witness ==
    \E s \in Subscribers :
        /\ subPc[s] = "closed"
        /\ discAt[s] = "sleep"
        /\ fetchesAfterDisc[s] = 1

\* Subscriber s is the only one that has connected since the app started.
OnlySubscriber(s) == \A t \in Subscribers \ {s} : subPc[t] = "idle"

\* C11 (as claimed): with a single subscriber, a pull query answered right
\* after a quote was delivered (no other cache write since) returns the
\* string form of that quote.
C11_PullReturnsDeliveredQuote ==
    [][\A s \in Subscribers :
        (delivered[s].type = "quote" /\ OnlySubscriber(s) /\ pullResp' # Absent) =>
            pullResp' = PyStr(delivered[s])
      ]_vars

\* C11 (amended): when the cache client was kept at startup, a cycle whose
\* fetch succeeded has the quote's string in the slot before the quote is
\* sent; so with a single subscriber a pull query answered right after a
\* delivery returns the string form of the delivered quote while the store
\* answers, the not-available indicator when the client was dropped at
\* startup, and a server error when the store has stopped answering.
C11_CacheWrittenBeforeSend ==
    /\ [][\A s \in Subscribers :
            (/\ FetchStep(s)
             /\ subPc'[s] = "send"
             /\ pending'[s].type = "quote"
             /\ redis_client # None) =>
                slot' = PyStr(pending'[s])
         ]_vars
    /\ [][\A s \in Subscribers :
            (delivered[s].type = "quote" /\ OnlySubscriber(s)
               /\ pullResp' # Absent) =>
                pullResp' = IF redis_client = None THEN NotAvailable
                            ELSE IF ~redisUp THEN ServerError
                            ELSE PyStr(delivered[s])
         ]_vars

\* A pull query has returned a cached string while the only subscriber, still
\* connected, waits after the delivery of a quote.
C11_Witness ==
    /\ pullResp.type = "str"
    /\ \E s \in Subscribers :
          /\ OnlySubscriber(s)
          /\ subPc[s] = "sleep"
          /\ lastFetch[s] = "ok"
          /\ connected[s]

\* C12: whatever the interleaving of the handlers' writes and the pull
\* queries, a value read from the store is the whole string of one quote and
\* is exactly what the slot holds at the read; a write that completed has its
\* own string in the slot, so a later read returns it or a later write's.
C12_ReadsAreWholeAndLatest ==
    /\ [](pullResp.type = "str" =>
            /\ \E q \in Quotes : pullResp = PyStr(Quote(q))
            /\ pullResp = slot)
    /\ [][(pullResp' # Absent /\ redis_client # None /\ redisUp) =>
            pullResp' = IF slot = Absent THEN NoData ELSE slot]_vars
    /\ [][\A s \in Subscribers :
            (FetchStep(s) /\ lastFetch'[s] = "ok"
               /\ redis_client # None /\ redisUp) =>
                \E q \in Quotes : slot' = PyStr(Quote(q)) /\ pending'[s] = Quote(q)
         ]_vars

\* Two handlers have written different quotes one after the other, both are
\* about to send, and a pull query has returned the later write.
C12_Witness ==
    \E s, t \in Subscribers :
        /\ s # t
        /\ subPc[s] = "send" /\ subPc[t] = "send"
        /\ pending[s].type = "quote" /\ pending[t].type = "quote"
        /\ pending[s] # pending[t]
        /\ pullResp = PyStr(pending[t])

\* C13: a pull query never answers with an error: it answers with the
\* not-available indicator when the cache client was dropped at startup, with
\* the "no data" indicator when the slot is empty, and with the cached value
\* otherwise.
C13_PullNeverErrors ==
    /\ pullResp # ServerError
    /\ pullResp # Absent =>
          pullResp = IF redis_client = None THEN NotAvailable
                     ELSE IF slot = Absent THEN NoData
                     ELSE slot

\* C14: no cache failure ends a handler or costs a subscriber a quote: every
\* cycle whose fetch succeeded keeps the handler in its loop with the quote as
\* the message about to be sent, whatever the state of the cache store.
C14_CacheFailureNeverStopsStream ==
    [][\A s \in Subscribers :
        (FetchStep(s) /\ lastFetch'[s] = "ok") =>
            /\ subPc'[s] = "send"
            /\ pending'[s].type = "quote"
            /\ connected'[s] = connected[s]
      ]_vars

\* C15: a call of any of the five operations raises nothing and returns the
\* payload or None: the payload only on HTTP 200 with the status flag true,
\* None on a non-200 code, a false flag, a raising request, a body that is
\* no JSON object or a missing payload; and no call changes a token.
C15_OpsReturnPayloadOrNone ==
    /\ [](apiCall.op # "-" =>
            /\ ~apiCall.raised
            /\ apiCall.result \in {"payload", None}
            /\ apiCall.result = "payload" =>
                  /\ apiCall.outcome.kind = "json"
                  /\ apiCall.outcome.code = 200
                  /\ apiCall.outcome.status
            /\ (\/ apiCall.outcome.kind # "json"
                \/ apiCall.outcome.code # 200
                \/ ~apiCall.outcome.status
                \/ apiCall.outcome.data = "missing") => apiCall.result = None
            /\ (/\ apiCall.outcome.kind = "json"
                /\ apiCall.outcome.code = 200
                /\ apiCall.outcome.status
                /\ apiCall.outcome.data = "payload") => apiCall.result = "payload")
    /\ [][(pc = "serving" /\ pc' = "serving") => tokens' = tokens]_vars

\* place_order has been called with a session held, the broker's body was no
\* JSON object, and the call returned None.
C15_Witness ==
    /\ apiCall.op = "place_order"
    /\ apiCall.outcome.kind = "malformed"
    /\ apiCall.result = None
    /\ AllPresent

\* C16: no retry: a call of an operation sends one request whatever the
\* outcome, a failed order placement included; login() and logout() have
\* each sent one request once they have run, and none before.
C16_OneRequestPerInvocation ==
    /\ apiCall.op # "-" => apiCall.requests = 1
    /\ loginRequests = (IF loginResult = "-" THEN 0 ELSE 1)
    /\ logoutRequests = (IF logoutOutcome = "-" THEN 0 ELSE 1)

\* POST /place_order has failed on a raising request after one request.
C16_Witness ==
    /\ apiCall.op = "place_order"
    /\ apiCall.outcome.kind = "network_error"
    /\ apiCall.requests = 1
    /\ apiCall.answer = "Order placement failed"

\* C17: every cycle a handler starts sends the broker exactly one quote
\* request, whatever the cache holds, and sends its subscriber exactly one
\* message: the cycle of a connected subscriber reaches the send with a quote
\* or the error marker, and that message is delivered.
C17_OneFetchOneMessagePerCycle ==
    [][\A s \in Subscribers :
        /\ FetchStep(s) => fetchCalls'[s] = 1
        /\ (FetchStep(s) /\ connected[s]) =>
              /\ subPc'[s] = "send"
              /\ pending'[s].type \in {"quote", "error"}
        /\ (SendStep(s) /\ connected[s]) =>
              /\ delivered'[s] = pending[s]
              /\ \A t \in Subscribers \ {s} : delivered'[t] = Absent
      ]_vars

\* C18: the step that answers a pull query leaves the slot, the cache client,
\* the three tokens and every handler's state as they were, and sends the
\* broker nothing: no login, logout, quote or other request is counted.
C18_PullOnlyReads ==
    [][pullResp' # Absent =>
        /\ slot' = slot
        /\ redis_client' = redis_client
        /\ tokens' = tokens
        /\ subVars' = subVars
        /\ loginRequests' = loginRequests
        /\ logoutRequests' = logoutRequests
        /\ apiCall' = apiCall
      ]_vars

\* A pull query has returned the cached string while a handler is between its
\* fetch and its send; the slot still holds the string.
C18_Witness ==
    /\ pullResp.type = "str"
    /\ slot = pullResp
    /\ AllPresent
    /\ \E s \in Subscribers : subPc[s] = "send" /\ fetchCalls[s] = 1

\* C19: the slot is empty or holds the string of a quote; a cycle whose fetch
\* failed leaves it as it was; and every change of the slot is the write of
\* the quote some handler's fetch has just returned.
C19_SlotHoldsOnlyFetchedQuotes ==
    /\ [](slot = Absent \/ \E q \in Quotes : slot = PyStr(Quote(q)))
    /\ [][\A s \in Subscribers :
            (FetchStep(s) /\ lastFetch'[s] = "failed") => slot' = slot]_vars
    /\ [][slot' # slot =>
            \E s \in Subscribers :
                /\ FetchStep(s)
                /\ lastFetch'[s] = "ok"
                /\ pending'[s].type = "quote"
                /\ slot' = PyStr(pending'[s])
         ]_vars

\* A quote is cached and a later cycle's fetch has failed: the error marker
\* is about to be sent and the slot still holds the quote's string.
C19_Witness ==
    \E s \in Subscribers :
        /\ lastFetch[s] = "failed"
        /\ subPc[s] = "send"
        /\ pending[s] = ErrorMarker
        /\ slot.type = "str"

====
